---- MODULE Spec2Model ----
(***************************************************************************)
(* The stage workflow of QSE Architect AI (src/App.tsx) and the service    *)
(* functions it awaits (src/geminiService.ts).                             *)
(*                                                                         *)
(* The App component holds the workflow state in React state hooks.  Each  *)
(* button of the rendered view starts one handler; an async handler runs   *)
(* up to its await in the click event, and its continuation runs when the  *)
(* generation service answers.  A step of the model is one UI event (an    *)
(* edit of a textarea or a click on a button that the current render       *)
(* shows) or the settling of one outstanding service call together with    *)
(* the continuation of the handler that awaits it.                         *)
(***************************************************************************)
EXTENDS Integers, Sequences, FiniteSets, TLC

VARIABLES
    stage,               \* useState<AppStage>
    problemInput,        \* useState<string>, bound to the textarea of stage 1
    isProcessing,        \* useState<boolean>, the in-flight flag
    modelLogic,          \* useState<string>
    baselineData,        \* useState<SimulationResult | null>
    analysisReport,      \* useState<string>
    counterfactualInput, \* useState<string>, bound to the textarea of stage 5
    counterfactualData,  \* useState<SimulationResult | null>
    mounted,             \* FALSE once a render of the component tree has thrown
    pending,             \* outstanding service calls, each with the awaiting handler's closure
    calls,               \* history: number of service calls issued, per service function
    last,                \* history: the most recent user operation and how it ended
    props,               \* the props of a DataVisualizer rendered on its own
    chartData            \* the chartData that DataVisualizer computed from props

vars == <<stage, problemInput, isProcessing, modelLogic, baselineData, analysisReport,
          counterfactualInput, counterfactualData, mounted, pending, calls, last,
          props, chartData>>

payload == <<stage, modelLogic, baselineData, analysisReport, counterfactualData>>

(***************************************************************************)
(* Bounds                                                                  *)
(***************************************************************************)
MaxTextLen == 1
MaxCalls == 2

(***************************************************************************)
(* Stages                                                                  *)
(***************************************************************************)
PROBLEM_DEFINITION == "PROBLEM_DEFINITION"
MODEL_CONSTRUCTION == "MODEL_CONSTRUCTION"
DATA_GENERATION == "DATA_GENERATION"
ESTIMATION_ANALYSIS == "ESTIMATION_ANALYSIS"
COUNTERFACTUAL == "COUNTERFACTUAL"

STAGES == <<PROBLEM_DEFINITION, MODEL_CONSTRUCTION, DATA_GENERATION,
            ESTIMATION_ANALYSIS, COUNTERFACTUAL>>

AppStage == {STAGES[i] : i \in 1..Len(STAGES)}

currentIndex(s) == CHOOSE i \in 1..Len(STAGES) : STAGES[i] = s

(***************************************************************************)
(* User text.  A text is a sequence of characters; the model uses one      *)
(* whitespace character and one other character.                           *)
(***************************************************************************)
Chars == {" ", "a"}

Texts == UNION {[1..n -> Chars] : n \in 0..MaxTextLen}

RECURSIVE trimStart(_)
trimStart(s) == IF Len(s) > 0 /\ Head(s) = " " THEN trimStart(Tail(s)) ELSE s

RECURSIVE trimEnd(_)
trimEnd(s) == IF Len(s) > 0 /\ s[Len(s)] = " " THEN trimEnd(SubSeq(s, 1, Len(s) - 1)) ELSE s

\* mutant of trim: the text is tested as it is (`if (!problemInput) return`)
trimForgotten(s) == s

\* String.prototype.trim
trim(s) == trimEnd(trimStart(s))

\* the initial texts of the two textareas are non-blank sentences
InitialProblemInput == <<"a">>
InitialCounterfactualInput == <<"a">>

(***************************************************************************)
(* Values the generation service can answer with.                          *)
(***************************************************************************)
\* response.text of a free-text request; "" is an absent or empty text
TextReplies == {"", "T1"}

\* JavaScript null
Null == [jsnull |-> TRUE]

Location(id, n) ==
    [id |-> id, name |-> id, population |-> n, wages |-> n, rents |-> n,
     amenity |-> 1, productivity |-> 1]

Result(d, locs) ==
    [description |-> d, parameters |-> [alpha |-> 3, sigma |-> 4],
     totalWelfare |-> 10, locations |-> locs]

R1 == Result("d1", <<Location("1", 1), Location("2", 2)>>)
R2 == Result("d2", <<Location("1", 2), Location("3", 1)>>)

\* the JSON value {}
EmptyObject == [k \in {} |-> TRUE]

\* a result without the parameters key
NoParameters == [description |-> "d3", totalWelfare |-> 10, locations |-> <<Location("1", 1)>>]

\* a result one of whose locations lacks the productivity key
BadLocation ==
    Result("d4", <<[id |-> "1", name |-> "1", population |-> 1, wages |-> 1,
                    rents |-> 1, amenity |-> 1]>>)

JsonValues == {Null, EmptyObject, NoParameters, BadLocation, R1, R2}

\* response.text of a JSON request: absent/empty, not parseable, or the text of a JSON value
JsonReplies ==
    {[kind |-> "empty"], [kind |-> "malformed"]} \cup
    {[kind |-> "json", value |-> v] : v \in JsonValues}

\* JavaScript truthiness of a SimulationResult | null
truthy(v) == v # Null

(***************************************************************************)
(* The generation service.  An answer is what ai.models.generateContent    *)
(* does: it rejects, or it resolves to a response with a text.  A service  *)
(* function maps the answer to what its caller observes: `threw` says that *)
(* the returned promise rejects, `value` is what it resolves to, `failed`  *)
(* says that the function's catch block ran (it logs with console.error).  *)
(***************************************************************************)
Rejected == [ok |-> FALSE]

TextAnswers == {Rejected} \cup {[ok |-> TRUE, text |-> t] : t \in TextReplies}

JsonAnswers == {Rejected} \cup {[ok |-> TRUE, text |-> t] : t \in JsonReplies}

Throws == [failed |-> TRUE, threw |-> TRUE]

Returns(v) == [failed |-> FALSE, threw |-> FALSE, value |-> v]

\* response.text || fallback
textOr(text, fallback) == IF text # "" THEN text ELSE fallback

\* JSON.parse(response.text || "{}")
parseOrEmptyObject(text) ==
    CASE text.kind = "empty" -> Returns(EmptyObject)
      [] text.kind = "malformed" -> Throws
      [] text.kind = "json" -> Returns(text.value)

generateModelLogic(answer) ==
    IF answer.ok THEN Returns(textOr(answer.text, "No response generated."))
    ELSE Throws

generateSyntheticData(answer) ==
    IF answer.ok THEN parseOrEmptyObject(answer.text)
    ELSE Throws

\* mutant of analyzeEquilibrium: response.text is returned without a fallback
analyzeEquilibriumNoFallback(answer) ==
    IF answer.ok THEN Returns(answer.text)
    ELSE [failed |-> TRUE, threw |-> FALSE, value |-> "Error generating analysis report."]

analyzeEquilibrium(answer) ==
    IF answer.ok THEN Returns(textOr(answer.text, "Analysis could not be generated."))
    ELSE [failed |-> TRUE, threw |-> FALSE, value |-> "Error generating analysis report."]

runCounterfactual(answer) ==
    IF answer.ok THEN parseOrEmptyObject(answer.text)
    ELSE Throws

Services == {"generateModelLogic", "generateSyntheticData", "analyzeEquilibrium",
             "runCounterfactual"}

(***************************************************************************)
(* Rendering.  The tree has no error boundary: a render that throws        *)
(* unmounts the whole component tree, after which no button exists.        *)
(***************************************************************************)
\* the table of DataVisualizer calls toFixed on these fields of every row
rowRenders(row) == {"productivity", "amenity", "wages", "rents"} \subseteq DOMAIN row

\* DataVisualizer with data = result.locations: data.map on a non-array throws
dataVisualizerThrows(result) ==
    \/ "locations" \notin DOMAIN result
    \/ \E i \in 1..Len(result.locations) : ~rowRenders(result.locations[i])

renderThrows ==
    \/ /\ stage \in {DATA_GENERATION, ESTIMATION_ANALYSIS}
       /\ truthy(baselineData)
       /\ dataVisualizerThrows(baselineData)
    \/ /\ stage = COUNTERFACTUAL
       /\ truthy(baselineData)
       /\ ~isProcessing
       /\ truthy(counterfactualData)
       /\ dataVisualizerThrows(baselineData)

\* after the state updates of a step are applied the tree renders again
Rerender == mounted' = (mounted /\ ~renderThrows')

(***************************************************************************)
(* Initial state: the useState initialisers                                *)
(***************************************************************************)
\* no service call has settled in the operation
NoResult == [failed |-> FALSE, threw |-> FALSE]

NoOperation == [op |-> "none", outcome |-> "none", alert |-> "", result |-> NoResult]

\* no DataVisualizer is rendered on its own
NoProps == [data |-> <<>>]

NotRendered == [rendered |-> FALSE]

Init ==
    /\ props = NoProps
    /\ chartData = NotRendered
    /\ stage = PROBLEM_DEFINITION
    /\ problemInput = InitialProblemInput
    /\ isProcessing = FALSE
    /\ modelLogic = ""
    /\ baselineData = Null
    /\ analysisReport = ""
    /\ counterfactualInput = InitialCounterfactualInput
    /\ counterfactualData = Null
    /\ mounted = TRUE
    /\ pending = <<>>
    /\ calls = [f \in Services |-> 0]
    /\ last = NoOperation

(***************************************************************************)
(* Helpers of the handlers                                                 *)
(***************************************************************************)
\* an operation that awaits nothing, or has not settled yet
Outcome(op, outcome, alert) ==
    [op |-> op, outcome |-> outcome, alert |-> alert, result |-> NoResult]

\* an operation whose service call settled with r; alert is the message of the
\* alert() the handler raised, "" if none
Finished(op, r, alert) ==
    [op |-> op, outcome |-> IF r.failed THEN "failed" ELSE "ok", alert |-> alert,
     result |-> r]

\* the handler calls service function f and suspends at its await; the
\* closure of the handler holds the state of the render it was created in
Await(f) ==
    /\ calls[f] < MaxCalls
    /\ pending' = Append(pending, [f |-> f, closure |-> payload])
    /\ calls' = [calls EXCEPT ![f] = @ + 1]

Without(calls_, i) == SubSeq(calls_, 1, i - 1) \o SubSeq(calls_, i + 1, Len(calls_))

\* the call at position i of pending is settled
Settled(i) == pending' = Without(pending, i)

\* a click on a button that is rendered with the disabled attribute starts no handler
NoHandler(op) ==
    /\ last' = Outcome(op, "busy", "")
    /\ UNCHANGED <<stage, problemInput, isProcessing, modelLogic, baselineData,
                   analysisReport, counterfactualInput, counterfactualData, mounted,
                   pending, calls>>

(***************************************************************************)
(* Handlers.  handleX is the part of the handler that runs in the click    *)
(* event, up to its await; handleXResumes(i, r) is its continuation once   *)
(* the awaited call, at position i of pending, has settled with r.  React  *)
(* applies the state updates of one event or continuation together.        *)
(***************************************************************************)
handleProblemSubmit ==
    IF Len(trim(problemInput)) = 0
    THEN /\ last' = Outcome("submitProblem", "empty", "")
         /\ UNCHANGED <<stage, problemInput, isProcessing, modelLogic, baselineData,
                        analysisReport, counterfactualInput, counterfactualData,
                        mounted, pending, calls>>
    ELSE /\ isProcessing' = TRUE
         /\ Await("generateModelLogic")
         /\ last' = Outcome("submitProblem", "started", "")
         /\ UNCHANGED <<stage, problemInput, modelLogic, baselineData, analysisReport,
                        counterfactualInput, counterfactualData>>
         /\ Rerender

\* mutant of handleProblemSubmitResumes: setIsProcessing(false) at the end of the
\* try block instead of in finally
handleProblemSubmitResumesNoFinally(i, r) ==
    /\ IF r.threw
       THEN /\ last' = Finished("submitProblem", r,
                                "Error generating model. Please check API key or try again.")
            /\ UNCHANGED <<modelLogic, stage, isProcessing>>
       ELSE /\ modelLogic' = r.value
            /\ stage' = MODEL_CONSTRUCTION
            /\ isProcessing' = FALSE
            /\ last' = Finished("submitProblem", r, "")
    /\ Settled(i)
    /\ UNCHANGED <<problemInput, baselineData, analysisReport, counterfactualInput,
                   counterfactualData, calls>>
    /\ Rerender

handleProblemSubmitResumes(i, r) ==
    /\ IF r.threw
       THEN /\ last' = Finished("submitProblem", r,
                                "Error generating model. Please check API key or try again.")
            /\ UNCHANGED <<modelLogic, stage>>
       ELSE /\ modelLogic' = r.value
            /\ stage' = MODEL_CONSTRUCTION
            /\ last' = Finished("submitProblem", r, "")
    /\ isProcessing' = FALSE
    /\ Settled(i)
    /\ UNCHANGED <<problemInput, baselineData, analysisReport, counterfactualInput,
                   counterfactualData, calls>>
    /\ Rerender

handleGenerateData ==
    /\ isProcessing' = TRUE
    /\ Await("generateSyntheticData")
    /\ last' = Outcome("generateData", "started", "")
    /\ UNCHANGED <<stage, problemInput, modelLogic, baselineData, analysisReport,
                   counterfactualInput, counterfactualData>>
    /\ Rerender

\* mutant of handleGenerateDataResumes: setStage names the wrong stage
handleGenerateDataResumesSkips(i, r) ==
    /\ IF r.threw
       THEN /\ last' = Finished("generateData", r, "Error simulating data.")
            /\ UNCHANGED <<baselineData, stage>>
       ELSE /\ baselineData' = r.value
            /\ stage' = ESTIMATION_ANALYSIS
            /\ last' = Finished("generateData", r, "")
    /\ isProcessing' = FALSE
    /\ Settled(i)
    /\ UNCHANGED <<problemInput, modelLogic, analysisReport, counterfactualInput,
                   counterfactualData, calls>>
    /\ Rerender

handleGenerateDataResumes(i, r) ==
    /\ IF r.threw
       THEN /\ last' = Finished("generateData", r, "Error simulating data.")
            /\ UNCHANGED <<baselineData, stage>>
       ELSE /\ baselineData' = r.value
            /\ stage' = DATA_GENERATION
            /\ last' = Finished("generateData", r, "")
    /\ isProcessing' = FALSE
    /\ Settled(i)
    /\ UNCHANGED <<problemInput, modelLogic, analysisReport, counterfactualInput,
                   counterfactualData, calls>>
    /\ Rerender

\* mutant of handleProceedToAnalysis: the report is requested whether or not one
\* is stored (no `if (!analysisReport)`)
handleProceedToAnalysisNoMemo ==
    IF ~truthy(baselineData)
    THEN /\ last' = Outcome("proceedToAnalysis", "ignored", "")
         /\ UNCHANGED <<stage, problemInput, isProcessing, modelLogic, baselineData,
                        analysisReport, counterfactualInput, counterfactualData,
                        mounted, pending, calls>>
    ELSE /\ isProcessing' = TRUE
         /\ Await("analyzeEquilibrium")
         /\ last' = Outcome("proceedToAnalysis", "started", "")
         /\ UNCHANGED <<stage, problemInput, modelLogic, baselineData, analysisReport,
                        counterfactualInput, counterfactualData>>
         /\ Rerender

handleProceedToAnalysis ==
    IF ~truthy(baselineData)
    THEN /\ last' = Outcome("proceedToAnalysis", "ignored", "")
         /\ UNCHANGED <<stage, problemInput, isProcessing, modelLogic, baselineData,
                        analysisReport, counterfactualInput, counterfactualData,
                        mounted, pending, calls>>
    ELSE IF analysisReport = ""
    THEN /\ isProcessing' = TRUE
         /\ Await("analyzeEquilibrium")
         /\ last' = Outcome("proceedToAnalysis", "started", "")
         /\ UNCHANGED <<stage, problemInput, modelLogic, baselineData, analysisReport,
                        counterfactualInput, counterfactualData>>
         /\ Rerender
    ELSE \* nothing is awaited: the handler runs to its end in the click event
         /\ stage' = ESTIMATION_ANALYSIS
         /\ isProcessing' = FALSE
         /\ last' = Outcome("proceedToAnalysis", "ok", "")
         /\ UNCHANGED <<problemInput, modelLogic, baselineData, analysisReport,
                        counterfactualInput, counterfactualData, pending, calls>>
         /\ Rerender

handleProceedToAnalysisResumes(i, r) ==
    /\ IF r.threw
       THEN /\ last' = Finished("proceedToAnalysis", r, "Error generating analysis report.")
            /\ UNCHANGED <<analysisReport, stage>>
       ELSE /\ analysisReport' = r.value
            /\ stage' = ESTIMATION_ANALYSIS
            /\ last' = Finished("proceedToAnalysis", r, "")
    /\ isProcessing' = FALSE
    /\ Settled(i)
    /\ UNCHANGED <<problemInput, modelLogic, baselineData, counterfactualInput,
                   counterfactualData, calls>>
    /\ Rerender

handleProceedToCounterfactual ==
    /\ stage' = COUNTERFACTUAL
    /\ last' = Outcome("proceedToCounterfactual", "ok", "")
    /\ UNCHANGED <<problemInput, isProcessing, modelLogic, baselineData, analysisReport,
                   counterfactualInput, counterfactualData, pending, calls>>
    /\ Rerender

handleRunCounterfactual ==
    IF ~truthy(baselineData) \/ Len(trim(counterfactualInput)) = 0
    THEN /\ last' = Outcome("runCounterfactual",
                            IF truthy(baselineData) THEN "empty" ELSE "ignored", "")
         /\ UNCHANGED <<stage, problemInput, isProcessing, modelLogic, baselineData,
                        analysisReport, counterfactualInput, counterfactualData,
                        mounted, pending, calls>>
    ELSE /\ isProcessing' = TRUE
         /\ Await("runCounterfactual")
         /\ last' = Outcome("runCounterfactual", "started", "")
         /\ UNCHANGED <<stage, problemInput, modelLogic, baselineData, analysisReport,
                        counterfactualInput, counterfactualData>>
         /\ Rerender

\* mutant of handleRunCounterfactualResumes: the catch block clears the result
handleRunCounterfactualResumesClears(i, r) ==
    /\ IF r.threw
       THEN /\ last' = Finished("runCounterfactual", r, "Error running counterfactual.")
            /\ counterfactualData' = Null
       ELSE /\ counterfactualData' = r.value
            /\ last' = Finished("runCounterfactual", r, "")
    /\ isProcessing' = FALSE
    /\ Settled(i)
    /\ UNCHANGED <<stage, problemInput, modelLogic, baselineData, analysisReport,
                   counterfactualInput, calls>>
    /\ Rerender

\* mutant of handleRunCounterfactualResumes: a stored result is kept
\* (setCounterfactualData(prev => prev ?? cfData))
handleRunCounterfactualResumesKeeps(i, r) ==
    /\ IF r.threw
       THEN /\ last' = Finished("runCounterfactual", r, "Error running counterfactual.")
            /\ UNCHANGED counterfactualData
       ELSE /\ counterfactualData' =
                   IF truthy(counterfactualData) THEN counterfactualData ELSE r.value
            /\ last' = Finished("runCounterfactual", r, "")
    /\ isProcessing' = FALSE
    /\ Settled(i)
    /\ UNCHANGED <<stage, problemInput, modelLogic, baselineData, analysisReport,
                   counterfactualInput, calls>>
    /\ Rerender

\* mutant of handleRunCounterfactualResumes: the result goes to setBaselineData
handleRunCounterfactualResumesOverBaseline(i, r) ==
    /\ IF r.threw
       THEN /\ last' = Finished("runCounterfactual", r, "Error running counterfactual.")
            /\ UNCHANGED baselineData
       ELSE /\ baselineData' = r.value
            /\ last' = Finished("runCounterfactual", r, "")
    /\ isProcessing' = FALSE
    /\ Settled(i)
    /\ UNCHANGED <<stage, problemInput, modelLogic, counterfactualData, analysisReport,
                   counterfactualInput, calls>>
    /\ Rerender

handleRunCounterfactualResumes(i, r) ==
    /\ IF r.threw
       THEN /\ last' = Finished("runCounterfactual", r, "Error running counterfactual.")
            /\ UNCHANGED counterfactualData
       ELSE /\ counterfactualData' = r.value
            /\ last' = Finished("runCounterfactual", r, "")
    /\ isProcessing' = FALSE
    /\ Settled(i)
    /\ UNCHANGED <<stage, problemInput, modelLogic, baselineData, analysisReport,
                   counterfactualInput, calls>>
    /\ Rerender

(***************************************************************************)
(* What the render of the current state shows                              *)
(***************************************************************************)
\* stage 1 view: the textarea and the Build Model button
ProblemDefinitionView == mounted /\ stage = PROBLEM_DEFINITION

BuildModelDisabled == isProcessing

\* stage 2 view: the model text and the Generate Synthetic Data button
ModelConstructionView == mounted /\ stage = MODEL_CONSTRUCTION

GenerateDataDisabled == isProcessing

\* stage 3 and 4 view
BaselineView ==
    /\ mounted
    /\ stage \in {DATA_GENERATION, ESTIMATION_ANALYSIS}
    /\ truthy(baselineData)

\* the Proceed to Analysis link is left out of the render while processing
ProceedToAnalysisShown == BaselineView /\ stage = DATA_GENERATION /\ ~isProcessing

\* mutant of ProceedToCounterfactualShown: the button of the analysis panel is
\* rendered at stage 3 as well
ProceedToCounterfactualShownEarly == BaselineView

\* the Run Counterfactual Analysis button of the analysis panel
ProceedToCounterfactualShown == BaselineView /\ stage = ESTIMATION_ANALYSIS

\* stage 5 view: the shock textarea and the Run Simulation button
CounterfactualView == mounted /\ stage = COUNTERFACTUAL /\ truthy(baselineData)

\* mutant of RunSimulationDisabled: the button has no disabled attribute
RunSimulationNeverDisabled == FALSE

RunSimulationDisabled == isProcessing

(***************************************************************************)
(* Actions: UI events                                                      *)
(***************************************************************************)
EditProblemInput ==
    /\ ProblemDefinitionView
    /\ \E t \in Texts : t # problemInput /\ problemInput' = t
    /\ UNCHANGED <<stage, isProcessing, modelLogic, baselineData, analysisReport,
                   counterfactualInput, counterfactualData, mounted, pending, calls, last,
                   props, chartData>>

ClickBuildModel ==
    /\ ProblemDefinitionView
    /\ \/ BuildModelDisabled /\ NoHandler("submitProblem")
       \/ ~BuildModelDisabled /\ handleProblemSubmit
    /\ UNCHANGED <<props, chartData>>

ClickGenerateData ==
    /\ ModelConstructionView
    /\ \/ GenerateDataDisabled /\ NoHandler("generateData")
       \/ ~GenerateDataDisabled /\ handleGenerateData
    /\ UNCHANGED <<props, chartData>>

ClickProceedToAnalysis ==
    /\ ProceedToAnalysisShown
    /\ handleProceedToAnalysis
    /\ UNCHANGED <<props, chartData>>

ClickProceedToCounterfactual ==
    /\ ProceedToCounterfactualShown
    /\ handleProceedToCounterfactual
    /\ UNCHANGED <<props, chartData>>

EditCounterfactualInput ==
    /\ CounterfactualView
    /\ \E t \in Texts : t # counterfactualInput /\ counterfactualInput' = t
    /\ UNCHANGED <<stage, problemInput, isProcessing, modelLogic, baselineData,
                   analysisReport, counterfactualData, mounted, pending, calls, last,
                   props, chartData>>

ClickRunSimulation ==
    /\ CounterfactualView
    /\ \/ RunSimulationDisabled /\ NoHandler("runCounterfactual")
       \/ ~RunSimulationDisabled /\ handleRunCounterfactual
    /\ UNCHANGED <<props, chartData>>

(***************************************************************************)
(* Actions: an outstanding call settles and the awaiting handler resumes   *)
(***************************************************************************)
GenerateModelLogicSettles ==
    \E i \in 1..Len(pending), answer \in TextAnswers :
        /\ pending[i].f = "generateModelLogic"
        /\ handleProblemSubmitResumes(i, generateModelLogic(answer))
        /\ UNCHANGED <<props, chartData>>

GenerateSyntheticDataSettles ==
    \E i \in 1..Len(pending), answer \in JsonAnswers :
        /\ pending[i].f = "generateSyntheticData"
        /\ handleGenerateDataResumes(i, generateSyntheticData(answer))
        /\ UNCHANGED <<props, chartData>>

AnalyzeEquilibriumSettles ==
    \E i \in 1..Len(pending), answer \in TextAnswers :
        /\ pending[i].f = "analyzeEquilibrium"
        /\ handleProceedToAnalysisResumes(i, analyzeEquilibrium(answer))
        /\ UNCHANGED <<props, chartData>>

RunCounterfactualSettles ==
    \E i \in 1..Len(pending), answer \in JsonAnswers :
        /\ pending[i].f = "runCounterfactual"
        /\ handleRunCounterfactualResumes(i, runCounterfactual(answer))
        /\ UNCHANGED <<props, chartData>>

Next ==
    \/ EditProblemInput
    \/ ClickBuildModel
    \/ ClickGenerateData
    \/ ClickProceedToAnalysis
    \/ ClickProceedToCounterfactual
    \/ EditCounterfactualInput
    \/ ClickRunSimulation
    \/ GenerateModelLogicSettles
    \/ GenerateSyntheticDataSettles
    \/ AnalyzeEquilibriumSettles
    \/ RunCounterfactualSettles

Spec == Init /\ [][Next]_vars

(***************************************************************************)
(* The handlers called directly, one after the other: each call is made    *)
(* when no earlier one is still awaiting its service call, whatever the    *)
(* view would show.  The texts of the two inputs stay as initialised.      *)
(***************************************************************************)
Idle == pending = <<>>

CallProblemSubmit == Idle /\ handleProblemSubmit /\ UNCHANGED <<props, chartData>>

CallGenerateData == Idle /\ handleGenerateData /\ UNCHANGED <<props, chartData>>

CallProceedToAnalysis == Idle /\ handleProceedToAnalysis /\ UNCHANGED <<props, chartData>>

CallProceedToCounterfactual == Idle /\ handleProceedToCounterfactual /\ UNCHANGED <<props, chartData>>

CallRunCounterfactual == Idle /\ handleRunCounterfactual /\ UNCHANGED <<props, chartData>>

CtrlNext ==
    \/ CallProblemSubmit
    \/ CallGenerateData
    \/ CallProceedToAnalysis
    \/ CallProceedToCounterfactual
    \/ CallRunCounterfactual
    \/ GenerateModelLogicSettles
    \/ GenerateSyntheticDataSettles
    \/ AnalyzeEquilibriumSettles
    \/ RunCounterfactualSettles

CtrlSpec == Init /\ [][CtrlNext]_vars

(***************************************************************************)
(* DataVisualizer on its own: it is rendered once with props drawn from    *)
(* the location sequences below and computes chartData from them.  The     *)
(* optional prop comparisonData is absent when props has no such key.      *)
(***************************************************************************)
MaxRows == 2

Ids == {"1", "2", "3"}

Levels == {1, 2}

\* a LocationData whose population, wages and rents differ from each other
Row(id, n) ==
    [id |-> id, name |-> id, population |-> n, wages |-> 10 + n, rents |-> 20 + n,
     amenity |-> 1, productivity |-> 1]

Rows == {Row(id, n) : id \in Ids, n \in Levels}

RowSeqs == UNION {[1..n -> Rows] : n \in 0..MaxRows}

PropsValues ==
    {[data |-> d] : d \in RowSeqs} \cup
    {[data |-> d, comparisonData |-> c] : d \in RowSeqs, c \in RowSeqs}

\* JavaScript undefined
Undefined == [jsundefined |-> TRUE]

\* mutant of find: the last element that matches is returned
findLast(rows, id) ==
    IF \E i \in 1..Len(rows) : rows[i].id = id
    THEN rows[CHOOSE i \in 1..Len(rows) :
                  /\ rows[i].id = id
                  /\ \A j \in 1..Len(rows) : rows[j].id = id => j <= i]
    ELSE Undefined

\* mutant of find: the callback assigns instead of comparing (c => c.id = d.id),
\* so the first element matches whatever its id
findAssigns(rows, id) ==
    IF Len(rows) > 0 THEN rows[1] ELSE Undefined

\* Array.prototype.find(c => c.id === id): the first element that matches
find(rows, id) ==
    IF \E i \in 1..Len(rows) : rows[i].id = id
    THEN rows[CHOOSE i \in 1..Len(rows) :
                  /\ rows[i].id = id
                  /\ \A j \in 1..Len(rows) : rows[j].id = id => i <= j]
    ELSE Undefined

\* mutant of comparison: the prop defaults to data when it is absent
comparisonDefaultsToData(p, d) ==
    find(IF "comparisonData" \in DOMAIN p THEN p.comparisonData ELSE p.data, d.id)

\* comparisonData?.find(c => c.id === d.id)
comparison(p, d) ==
    IF "comparisonData" \in DOMAIN p THEN find(p.comparisonData, d.id) ELSE Undefined

\* the object literal built for one element of data
chartRow(d, comp) ==
    IF comp # Undefined
    THEN [name |-> d.name, Population |-> d.population, Wages |-> d.wages,
          Rents |-> d.rents, PopCF |-> comp.population, WagesCF |-> comp.wages,
          RentsCF |-> comp.rents]
    ELSE [name |-> d.name, Population |-> d.population, Wages |-> d.wages,
          Rents |-> d.rents]

\* data.map(d => ...)
merge(p) == [i \in 1..Len(p.data) |-> chartRow(p.data[i], comparison(p, p.data[i]))]

MergeInit ==
    /\ props \in PropsValues
    /\ chartData = NotRendered
    /\ stage = PROBLEM_DEFINITION
    /\ problemInput = InitialProblemInput
    /\ isProcessing = FALSE
    /\ modelLogic = ""
    /\ baselineData = Null
    /\ analysisReport = ""
    /\ counterfactualInput = InitialCounterfactualInput
    /\ counterfactualData = Null
    /\ mounted = TRUE
    /\ pending = <<>>
    /\ calls = [f \in Services |-> 0]
    /\ last = NoOperation

RenderDataVisualizer ==
    /\ ~chartData.rendered
    /\ chartData' = [rendered |-> TRUE, rows |-> merge(props)]
    /\ UNCHANGED <<stage, problemInput, isProcessing, modelLogic, baselineData,
                   analysisReport, counterfactualInput, counterfactualData, mounted,
                   pending, calls, last, props>>

MergeNext == RenderDataVisualizer

MergeSpec == MergeInit /\ [][MergeNext]_vars

(***************************************************************************)
(* Properties                                                              *)
(***************************************************************************)

\* C1: every change of the stage moves it to the immediate successor in the
\* order of STAGES; no step skips a stage or moves the stage backwards.
StageAdvancesOneStep ==
    [][stage' # stage => currentIndex(stage') = currentIndex(stage) + 1]_vars

\* C1 witness: the stage has walked from Problem Definition to Counterfactual and
\* a counterfactual run has completed there
StageWalkedToTheEnd ==
    /\ stage = COUNTERFACTUAL
    /\ last.op = "runCounterfactual"
    /\ last.outcome = "ok"

\* C2: at most one service call is outstanding; while the in-flight flag is
\* true a step either settles the outstanding call or issues no call and leaves
\* the stage, the payloads, the flag and the outstanding call as they are.
SingleInFlight ==
    [][/\ Len(pending') <= 1
       /\ isProcessing =>
              \/ Len(pending') < Len(pending)
              \/ UNCHANGED <<payload, isProcessing, pending, calls>>]_vars

\* C2 witness: a click on a button while a call is outstanding started nothing
RejectedWhileBusy ==
    /\ isProcessing
    /\ Len(pending) = 1
    /\ last.outcome = "busy"

\* C3: when the service call of submitProblem, generateData or runCounterfactual
\* fails, the stage, model logic, baseline, analysis report and counterfactual
\* result after the handler has finished are those of the moment it was started.
NoPartialCommit ==
    [][(/\ Len(pending') < Len(pending)
        /\ last'.outcome = "failed"
        /\ last'.op \in {"submitProblem", "generateData", "runCounterfactual"})
       => \E i \in 1..Len(pending) :
              /\ pending' = Without(pending, i)
              /\ payload' = pending[i].closure]_vars

\* C3 witness: a counterfactual run has failed with an earlier result in store
FailedRunKeepsResult ==
    /\ last.op = "runCounterfactual"
    /\ last.outcome = "failed"
    /\ truthy(counterfactualData)

\* C4 (as claimed): when the analysis call fails the stage stays at Data
\* Generation, no analysis report is stored and the failure is surfaced.
AnalysisFailureKeepsStage ==
    (last.op = "proceedToAnalysis" /\ last.outcome = "failed")
    => /\ stage = DATA_GENERATION
       /\ analysisReport = ""
       /\ last.alert # ""

\* the fields a location record must have
RequiredLocationFields ==
    {"id", "name", "population", "wages", "rents", "amenity", "productivity"}

\* the schema of a Simulation Result: an object with a sequence `locations` of
\* records that have every required field, and with a mapping `parameters`
schemaValid(v) ==
    /\ v # Null
    /\ {"locations", "parameters"} \subseteq DOMAIN v
    /\ \A i \in 1..Len(v.locations) : RequiredLocationFields \subseteq DOMAIN v.locations[i]

\* C5 (as claimed): a baseline or counterfactual result held in the workflow
\* state conforms to the schema of a Simulation Result.
StoredResultsValid ==
    /\ truthy(baselineData) => schemaValid(baselineData)
    /\ truthy(counterfactualData) => schemaValid(counterfactualData)

\* C6: the in-flight flag is true exactly while an operation awaits its
\* service call: it is true once an operation has started and false once it has
\* finished, with success or with failure.
FlagTracksOperation ==
    /\ isProcessing <=> pending # <<>>
    /\ last.outcome = "started" => isProcessing
    /\ last.outcome \in {"ok", "failed"} => ~isProcessing

\* C6 witness: an operation has failed and the flag is false again
FlagClearedAfterFailure ==
    /\ last.op = "submitProblem"
    /\ last.outcome = "failed"
    /\ ~isProcessing

\* C7: once an analysis report is stored, no step requests an analysis or
\* changes the report, and a proceedToAnalysis made then with a baseline in
\* store ends in Estimation/Analysis.
AnalysisMemoized ==
    [][analysisReport # "" =>
          /\ calls'["analyzeEquilibrium"] = calls["analyzeEquilibrium"]
          /\ analysisReport' = analysisReport
          /\ (last' # last /\ last'.op = "proceedToAnalysis" /\ truthy(baselineData))
                 => stage' = ESTIMATION_ANALYSIS]_vars

\* C7 witness: a proceedToAnalysis made with a report in store has ended without
\* a service call, after the one that fetched the report
ReportReused ==
    /\ last = Outcome("proceedToAnalysis", "ok", "")
    /\ analysisReport # ""
    /\ calls["analyzeEquilibrium"] = 1
    /\ stage = ESTIMATION_ANALYSIS

\* a text of whitespace characters only
IsBlank(s) == \A i \in 1..Len(s) : s[i] = " "

\* C8: with a blank problem text at Problem Definition, or a blank shock text at
\* Counterfactual, and nothing in flight, a step issues no service call, does not
\* set the in-flight flag and leaves the stage and the payloads as they are; a
\* click then ends as an empty-input rejection.
BlankInputRejected ==
    [][(/\ ~isProcessing
        /\ \/ stage = PROBLEM_DEFINITION /\ IsBlank(problemInput)
           \/ stage = COUNTERFACTUAL /\ IsBlank(counterfactualInput))
       => /\ UNCHANGED <<payload, isProcessing, pending, calls>>
          /\ last' # last => last'.outcome = "empty"]_vars

\* C8 witness: a counterfactual run was asked for with a blank shock text
BlankShockRejected ==
    /\ last = Outcome("runCounterfactual", "empty", "")
    /\ IsBlank(counterfactualInput)
    /\ stage = COUNTERFACTUAL

\* C9: a step of runCounterfactual is taken at Counterfactual and leaves the
\* stage, the baseline, the model logic and the analysis report as they are;
\* when its call succeeds the stored counterfactual result is the value the call
\* returned, otherwise the stored result is unchanged.
RunCounterfactualFrame ==
    [][(last'.op = "runCounterfactual" /\ (last' # last \/ pending' # pending))
       => /\ stage = COUNTERFACTUAL
          /\ UNCHANGED <<stage, baselineData, modelLogic, analysisReport>>
          /\ IF last'.outcome = "ok"
             THEN counterfactualData' = last'.result.value
             ELSE counterfactualData' = counterfactualData]_vars

\* C9 witness: a second counterfactual run has succeeded and its result is stored
SecondRunStored ==
    /\ last.op = "runCounterfactual"
    /\ last.outcome = "ok"
    /\ calls["runCounterfactual"] = 2
    /\ counterfactualData = R2

\* C10: the baseline changes only in a step from Model Construction to Data
\* Generation; from Data Generation on no step changes it.
BaselineImmutable ==
    [][/\ baselineData' # baselineData =>
              stage = MODEL_CONSTRUCTION /\ stage' = DATA_GENERATION
       /\ currentIndex(stage) >= currentIndex(DATA_GENERATION) =>
              baselineData' = baselineData]_vars

\* C10 witness: a counterfactual run has stored a result that differs from the
\* baseline
BaselineKeptBesideResult ==
    /\ stage = COUNTERFACTUAL
    /\ baselineData = R1
    /\ counterfactualData = R2
    /\ last.op = "runCounterfactual"
    /\ last.outcome = "ok"

\* C11 (as claimed): the stage and the stored payloads are in lockstep: from
\* Model Construction on the model logic is non-empty, from Data Generation on a
\* baseline exists, and generateData is only started with non-empty model logic.
StageAndPayloadInLockstep ==
    /\ currentIndex(stage) >= currentIndex(MODEL_CONSTRUCTION) => modelLogic # ""
    /\ currentIndex(stage) >= currentIndex(DATA_GENERATION) => truthy(baselineData)
    /\ \A i \in 1..Len(pending) :
           pending[i].f = "generateSyntheticData" => pending[i].closure[2] # ""

\* the comparison sequence of the props, empty when the prop is absent
GivenComparison == IF "comparisonData" \in DOMAIN props THEN props.comparisonData ELSE <<>>

\* the positions of the comparison sequence whose record has the id
Matches(id) == {j \in 1..Len(GivenComparison) : GivenComparison[j].id = id}

CFLabels == {"PopCF", "WagesCF", "RentsCF"}

\* C12: the merged output has one record per baseline record, in the
\* baseline's order, with that record's population, wages and rents; it has the
\* counterfactual-labelled fields exactly when some comparison record has the
\* same id, and then they are those of such a record; comparison records whose
\* id is no baseline id appear nowhere.
MergePerBaselineRecord ==
    chartData.rendered =>
        /\ Len(chartData.rows) = Len(props.data)
        /\ \A i \in 1..Len(props.data) :
               LET d == props.data[i]
                   row == chartData.rows[i]
               IN  /\ row.Population = d.population
                   /\ row.Wages = d.wages
                   /\ row.Rents = d.rents
                   /\ IF Matches(d.id) # {}
                      THEN /\ CFLabels \subseteq DOMAIN row
                           /\ \E j \in Matches(d.id) :
                                  /\ row.PopCF = GivenComparison[j].population
                                  /\ row.WagesCF = GivenComparison[j].wages
                                  /\ row.RentsCF = GivenComparison[j].rents
                      ELSE CFLabels \cap DOMAIN row = {}

\* C12 witness: of two baseline records one is matched and one is not, and a
\* comparison record has an id that is no baseline id
MergedWithUnmatchedRecords ==
    /\ chartData.rendered
    /\ Len(props.data) = 2
    /\ Matches(props.data[1].id) # {}
    /\ Matches(props.data[2].id) = {}
    /\ \E j \in 1..Len(GivenComparison) :
           \A i \in 1..Len(props.data) : props.data[i].id # GivenComparison[j].id

\* C13 (as claimed): with several comparison records of one id, the
\* counterfactual-labelled fields are those of the last such record.
LastMatchWins ==
    chartData.rendered =>
        \A i \in 1..Len(props.data) :
            Matches(props.data[i].id) # {} =>
                LET j == CHOOSE k \in Matches(props.data[i].id) :
                             \A m \in Matches(props.data[i].id) : m <= k
                IN  /\ chartData.rows[i].PopCF = GivenComparison[j].population
                    /\ chartData.rows[i].WagesCF = GivenComparison[j].wages
                    /\ chartData.rows[i].RentsCF = GivenComparison[j].rents

\* C13 (amended): with several comparison records of one id, the
\* counterfactual-labelled fields are those of the first such record.
FirstMatchWins ==
    chartData.rendered =>
        \A i \in 1..Len(props.data) :
            Matches(props.data[i].id) # {} =>
                LET j == CHOOSE k \in Matches(props.data[i].id) :
                             \A m \in Matches(props.data[i].id) : k <= m
                IN  /\ chartData.rows[i].PopCF = GivenComparison[j].population
                    /\ chartData.rows[i].WagesCF = GivenComparison[j].wages
                    /\ chartData.rows[i].RentsCF = GivenComparison[j].rents

\* C13 witness: two comparison records share the id of a baseline record and
\* differ in their values
DuplicateIdMerged ==
    /\ chartData.rendered
    /\ Len(props.data) >= 1
    /\ Cardinality(Matches(props.data[1].id)) = 2
    /\ GivenComparison[1] # GivenComparison[2]

\* the baseline fields of every record, and nothing else
BaselineOnly(data) ==
    [i \in 1..Len(data) |->
        [name |-> data[i].name, Population |-> data[i].population,
         Wages |-> data[i].wages, Rents |-> data[i].rents]]

\* C14: with the comparison absent the merged output is the same as with an
\* empty comparison: in both it is the baseline fields of every record, with no
\* counterfactual-labelled field.
AbsentComparisonIsEmpty ==
    (chartData.rendered /\ GivenComparison = <<>>) =>
        chartData.rows = BaselineOnly(props.data)

\* C14 witness: a DataVisualizer without comparisonData has rendered two records
RenderedWithoutComparison ==
    /\ chartData.rendered
    /\ "comparisonData" \notin DOMAIN props
    /\ Len(props.data) = 2

\* the operation can be started from the current render and would call its service
Startable(op) ==
    CASE op = "submitProblem" -> ProblemDefinitionView /\ ~BuildModelDisabled
      [] op = "generateData" -> ModelConstructionView /\ ~GenerateDataDisabled
      [] op = "proceedToAnalysis" -> ProceedToAnalysisShown /\ analysisReport = ""
      [] op = "runCounterfactual" -> CounterfactualView /\ ~RunSimulationDisabled
      [] OTHER -> FALSE

\* a step issues at most one service call, and only as the start of an operation
AtMostOneCallAndNoRetry ==
    /\ \A f \in Services : calls'[f] \in {calls[f], calls[f] + 1}
    /\ \A f, g \in Services : (calls'[f] # calls[f] /\ calls'[g] # calls[g]) => f = g
    /\ calls' # calls <=> Len(pending') = Len(pending) + 1
    /\ calls' # calls => last'.outcome = "started"
    /\ Len(pending') < Len(pending) => calls' = calls
    /\ (last'.outcome = "started" /\ last' # last) =>
           \E f \in Services : calls'[f] = calls[f] + 1

\* C15: every operation issues at most one service call (exactly one when it
\* starts), a step in which a call settles issues none, and after a failed call
\* the same operation can be started again and then issues a call.
OneCallAndRetryAfterFailure ==
    /\ [][AtMostOneCallAndNoRetry]_vars
    /\ []((last.outcome = "failed" /\ pending = <<>>) => Startable(last.op))

\* the render of the current state offers the operation of its stage
SomeOperationAvailable ==
    \/ ProblemDefinitionView /\ ~BuildModelDisabled
    \/ ModelConstructionView /\ ~GenerateDataDisabled
    \/ ProceedToAnalysisShown
    \/ ProceedToCounterfactualShown
    \/ CounterfactualView /\ ~RunSimulationDisabled

\* C16: whenever no service call is outstanding, the operation of the current
\* stage is available to the user, whatever value was stored as the baseline.
NeverStuck == pending = <<>> => SomeOperationAvailable

\* C17: while a service call is outstanding, the stage, model logic, baseline,
\* report and counterfactual result change only in the step in which that call
\* settles, and at that step they are still what they were when the call was
\* started.
PayloadChangesOnlyByCompletion ==
    [][pending # <<>> =>
           /\ payload' # payload => Len(pending') < Len(pending)
           /\ Len(pending') < Len(pending) =>
                  \E i \in 1..Len(pending) :
                      /\ pending' = Without(pending, i)
                      /\ pending[i].closure = payload]_vars

\* C17 witness: the analysis call, started at stage 3, has settled and its
\* report and stage are committed
AnalysisCommittedWhereStarted ==
    /\ pending = <<>>
    /\ last.op = "proceedToAnalysis"
    /\ last.outcome = "ok"
    /\ "value" \in DOMAIN last.result
    /\ analysisReport = last.result.value
    /\ stage = ESTIMATION_ANALYSIS

\* C18: a counterfactual result is stored only at the Counterfactual stage with
\* a baseline, and from Estimation/Analysis on the report is not empty.
ResultAndReportInPlace ==
    /\ truthy(counterfactualData) => (stage = COUNTERFACTUAL /\ truthy(baselineData))
    /\ stage \in {ESTIMATION_ANALYSIS, COUNTERFACTUAL} => analysisReport # ""

\* C18 witness: the analysis service answered with an empty text, the
\* placeholder was stored as the report, and a counterfactual result is stored
PlaceholderReportAndResultStored ==
    /\ stage = COUNTERFACTUAL
    /\ truthy(counterfactualData)
    /\ analysisReport = "Analysis could not be generated."

====
